---- MODULE Spec2Model ----
(***************************************************************************)
(* Model of the open_AR_Sandbox module run-loop (sandbox.py, class Module) *)
(* and of the frame geometry and calibration helpers it uses.              *)
(*                                                                         *)
(* Spec      : the threaded run-loop.  Caller threads (the main thread and *)
(*             a widget callback thread) invoke run/stop/pause/resume and  *)
(*             the widget callbacks; worker threads execute thread_loop.   *)
(*             Every shared read or write of the Python code is one step.  *)
(* LiveSpec  : Spec with the fairness the thread scheduler gives.          *)
(* SpecFrame : one worker's BlockModule.update on sensor frames, with the  *)
(*             arrays computed as numpy computes them.                     *)
(* SpecJson  : calibrating, CalibrationData.save_json and the construction *)
(*             of a CalibrationData from the saved file.                   *)
(* SpecAruco : ArucoMarkers.search_aruco and update_marker_dict.           *)
(* SpecGrid  : GemPyModule.setup and update with Grid.update_grid.         *)
(* SpecPlot  : CalibModule's sensor range sliders and the contour levels   *)
(*             of its Plot objects.                                        *)
(* SpecArray : crop_frame, crop_frame_workaround, clip_frame and           *)
(*             depth_mask under every calibration the sliders can set.     *)
(* LiveSpecPrototyping : thread_loop around PrototypingModule.update with  *)
(*             a connected function, under a fair scheduler.               *)
(***************************************************************************)
EXTENDS Integers, Sequences, FiniteSets, TLC

\* ------------------------------------------------------------------------
\* Bounds of the model
\* ------------------------------------------------------------------------

\* Largest number of worker threads that may be created-or-alive at once;
\* run() is not invoked when one more thread could exceed it.
MaxWorkers == 2

\* The threads that call the module's methods.
Callers == {"main", "widget"}

\* Identities of threading.Thread objects; unreferenced dead ones are reused.
ThreadIds == 1 .. (MaxWorkers + Cardinality(Callers) + 1)

\* self.thread = None
NoThread == 0

\* Values a widget can write into the module state read by update().
ParamValues == {0, 1}

VARIABLES
    thread_status,  \* Module.thread_status: "stopped" | "running" | "paused"
    lock,           \* Module.lock: 0 when free, else the thread that acquired it
    thread,         \* Module.thread: NoThread or a thread identity
    wpc,            \* position of every Thread object in thread_loop
    cpc,            \* position of every caller inside the method it called
    jt,             \* the Thread object a caller is blocked on in join()
    incb,           \* caller is inside a pause()/write/resume() widget callback
    param           \* module state written by callbacks and read by update()

tvars == <<thread_status, lock, thread, wpc, cpc, jt, incb, param>>

VARIABLES
    calib,          \* CalibrationData: s_top, s_right, s_bottom, s_left, s_min, s_max
    raw,            \* the frame the sensor returned to this update()
    frame,          \* update()'s local variable frame
    dmask,          \* update()'s local variable depth_mask
    index,          \* BlockModule.index
    result,         \* BlockModule.result
    bpc             \* position in BlockModule.update

fvars == <<calib, raw, frame, dmask, index, result, bpc>>

VARIABLES
    cdata,          \* __dict__ of the session's CalibrationData object
    jfile,          \* the JSON text of the calibration file, or NoFile
    loaded,         \* __dict__ of the object constructed from the file
    jpc             \* "calibrating" | "saved" | "foreign" | "loaded" | "loaded_foreign"

jvars == <<cdata, jfile, loaded, jpc>>

VARIABLES
    markers_in_frame,  \* ArucoMarkers.markers_in_frame
    aruco_markers,     \* ArucoMarkers.aruco_markers
    missed,            \* consecutive frames without detection, per marker
    tracked_before,    \* index of aruco_markers before the last update_marker_dict
    apc                \* "search" | "update": the next call of the marker part

avars == <<markers_in_frame, aruco_markers, missed, tracked_before, apc>>

VARIABLES
    extent,            \* Scale.extent
    empty_depth_grid,  \* Grid.empty_depth_grid
    depth_grid,        \* Grid.depth_grid
    gpc                \* position in GemPyModule.setup / update

gvars == <<extent, empty_depth_grid, depth_grid, gpc>>

VARIABLES
    plot,              \* CalibModule.plot: vmin, vmax and contours_step of the Plot
    calib_plot,        \* CalibModule.calib_plot, the Plot of the calibration panel
    drawn_levels,      \* levels of the last ax.contour call of either Plot
    ppc                \* "constructed" | "calibrated": a callback has written

pvars == <<plot, calib_plot, drawn_levels, ppc>>

VARIABLES
    function_to_run,   \* PrototypingModule.function_to_run
    active_connection, \* PrototypingModule.active_connection
    uframe,            \* update()'s local variable frame
    drawn,             \* what the current update() has put on plot.ax
    failed             \* "no" | "now" | "before": function_to_run has raised

uvars == <<function_to_run, active_connection, uframe, drawn, failed>>

vars == <<tvars, fvars, jvars, avars, gvars, pvars, uvars>>

\* ------------------------------------------------------------------------
\* Arrays and numpy slicing
\* ------------------------------------------------------------------------

\* Sensor resolution (CalibrationData.s_height, s_width), kept small.
SHeight == 3
SWidth == 3

\* data.shape[2]: number of layers of the block model along z.
NumLayers == 3

\* Depth readings: a frame is a row profile plus a column profile, so that
\* rows and columns are told apart and readings fall below, on, inside and
\* above the sensor range.
RowLevels == {0, 3}
ColLevels == {1, 2, 3}

\* (s_min, s_max) of the calibration.
SensorRanges == {<<2, 4>>, <<2, 5>>}

\* A 2-d array: shape (rows, cols) and the element at every <<r, c>>, 0-based.
Positions(h, w) == (0 .. (h - 1)) \X (0 .. (w - 1))

NoArray == [rows |-> 0, cols |-> 0, at |-> <<>>]

\* numpy.ma.nomask: the 0-d False that stands for "nothing is masked".
nomask == [rows |-> 0, cols |-> 0, at |-> <<>>, nd |-> 0]

SensorFrames ==
    {[rows |-> SHeight, cols |-> SWidth,
      at |-> [p \in Positions(SHeight, SWidth) |-> rv[p[1]] + cv[p[2]]]] :
        rv \in [0 .. (SHeight - 1) -> RowLevels],
        cv \in [0 .. (SWidth - 1) -> ColLevels]}

\* Margins of a calibration: non-negative and leaving at least one pixel.
Margins(n) == {m \in (0 .. (n - 1)) \X (0 .. (n - 1)) : m[1] + m[2] < n}

Calibrations ==
    {[s_top |-> tb[1], s_bottom |-> tb[2], s_left |-> lr[1], s_right |-> lr[2],
      s_min |-> rg[1], s_max |-> rg[2]] :
        tb \in Margins(SHeight), lr \in Margins(SWidth), rg \in SensorRanges}

\* CalibrationData.__init__ defaults
DefaultCalib ==
    [s_top |-> 10, s_bottom |-> 10, s_left |-> 10, s_right |-> 10,
     s_min |-> 700, s_max |-> 1500]

\* CalibrationData.s_frame_width
s_frame_width(cal) == SWidth - cal.s_left - cal.s_right

\* CalibrationData.s_frame_height
s_frame_height(cal) == SHeight - cal.s_top - cal.s_bottom

\* A slice bound i on an axis of length n, as Python normalises it:
\* negative bounds count from the end, and everything is clamped to 0..n.
PyBound(n, i) ==
    IF i < 0 THEN (IF n + i < 0 THEN 0 ELSE n + i)
             ELSE (IF i > n THEN n ELSE i)

\* The source indices that  a[start:stop]  selects on an axis of length n.
PySlice(n, start, stop) ==
    LET lo == PyBound(n, start)
        hi == PyBound(n, stop)
    IN  [k \in 1 .. (IF hi > lo THEN hi - lo ELSE 0) |-> lo + k - 1]

\* a[r0:r1, c0:c1]
Slice2(a, r0, r1, c0, c1) ==
    LET rs == PySlice(a.rows, r0, r1)
        cs == PySlice(a.cols, c0, c1)
    IN  [rows |-> Len(rs), cols |-> Len(cs),
         at |-> [p \in Positions(Len(rs), Len(cs)) |->
                    a.at[<<rs[p[1] + 1], cs[p[2] + 1]>>]]]

\* Module.crop_frame:
\* frame[self.calib.s_bottom:-self.calib.s_top, self.calib.s_left:-self.calib.s_right]
crop_frame(a, cal) ==
    Slice2(a, cal.s_bottom, 0 - cal.s_top, cal.s_left, 0 - cal.s_right)

\* frame[r0:, c0:c1] and its variants: a bound that is left out is the end
\* of the axis.
ToEnd(a, axis) == IF axis = 0 THEN a.rows ELSE a.cols

crop_frame_workaround_AsCropFrame(a, cal) ==
    Slice2(a, cal.s_bottom, 0 - cal.s_top, cal.s_left, 0 - cal.s_right)

\* Module.crop_frame_workaround: one slice expression for each of the four
\* cases of s_top == 0 and s_right == 0.
crop_frame_workaround(a, cal) ==
    IF cal.s_top = 0 /\ cal.s_right = 0
      THEN Slice2(a, cal.s_bottom, ToEnd(a, 0), cal.s_left, ToEnd(a, 1))
    ELSE IF cal.s_top = 0
      THEN Slice2(a, cal.s_bottom, ToEnd(a, 0), cal.s_left, 0 - cal.s_right)
    ELSE IF cal.s_right = 0
      THEN Slice2(a, cal.s_bottom, 0 - cal.s_top, cal.s_left, ToEnd(a, 1))
    ELSE Slice2(a, cal.s_bottom, 0 - cal.s_top, cal.s_left, 0 - cal.s_right)

\* Margins as the four independent sliders and a calibration file give them:
\* each within the sensor resolution, whatever the opposite margin is.
AnyMargins(n) == (0 .. (n - 1)) \X (0 .. (n - 1))

\* (s_min, s_max) as the two independent sliders give them: ordered, equal
\* or inverted.
AnyRanges == SensorRanges \cup {<<3, 3>>, <<4, 2>>}

AnyCalibrations ==
    {[s_top |-> tb[1], s_bottom |-> tb[2], s_left |-> lr[1], s_right |-> lr[2],
      s_min |-> rg[1], s_max |-> rg[2]] :
        tb \in AnyMargins(SHeight), lr \in AnyMargins(SWidth), rg \in AnyRanges}

\* numpy.ma.masked_outside(x, v1, v2): the bounds are swapped when v2 < v1,
\* the condition is (x < v1) | (x > v2).
Outside(x, v1, v2) ==
    IF v2 < v1 THEN (x < v2) \/ (x > v1) ELSE (x < v1) \/ (x > v2)

\* Module.depth_mask:
\* numpy.ma.getmask(numpy.ma.masked_outside(frame, s_min, s_max)).
\* masked_where shrinks a mask without any True to nomask.
depth_mask(a, cal) ==
    LET m == [p \in Positions(a.rows, a.cols) |->
                 Outside(a.at[p], cal.s_min, cal.s_max)]
    IN  IF \A p \in Positions(a.rows, a.cols) : ~m[p]
          THEN nomask
          ELSE [rows |-> a.rows, cols |-> a.cols, at |-> m, nd |-> 2]

Clip_LowerBoundOnly(x, lo, hi) == IF x < lo THEN lo ELSE x

\* numpy.clip(x, lo, hi) = minimum(maximum(x, lo), hi)
Clip(x, lo, hi) ==
    LET y == IF x < lo THEN lo ELSE x
    IN  IF y > hi THEN hi ELSE y

\* Module.clip_frame: numpy.clip(frame, self.calib.s_min, self.calib.s_max)
clip_frame(a, cal) ==
    [rows |-> a.rows, cols |-> a.cols,
     at |-> [p \in Positions(a.rows, a.cols) |->
                Clip(a.at[p], cal.s_min, cal.s_max)]]

\* numpy.round of n / d for d > 0: the nearest integer, ties to the even one
\* (\div rounds towards minus infinity, so 0 <= r < d).
RoundHalfEven(n, d) ==
    LET q == n \div d
        r == n % d
    IN  IF 2 * r < d THEN q
        ELSE IF 2 * r > d THEN q + 1
        ELSE IF q % 2 = 0 THEN q ELSE q + 1

\* BlockModule.update:
\* index = (frame - zmin) / (zmax - zmin) * (data.shape[2] - 1.0); index.round().astype('int')
z_index(a, cal) ==
    [rows |-> a.rows, cols |-> a.cols,
     at |-> [p \in Positions(a.rows, a.cols) |->
                RoundHalfEven((a.at[p] - cal.s_min) * (NumLayers - 1),
                              cal.s_max - cal.s_min)]]

\* The rescaled block model data[r, c, k]: rescale_blocks gives it the shape
\* (s_frame_height, s_frame_width, NumLayers); the cell value tells the
\* column and the layer.  It is the dataset shown by default
\* (displayed_dataset_key = "mask"), which update() reads without a data mask.
BlockData(p, k) == 10 * k + p[2]

\* data[i, j, index] can be taken: index has the shape of data's x-y plane
\* and every entry is a valid (possibly negative) position along z.
CanLookup(ix, cal) ==
    /\ ix.rows = s_frame_height(cal)
    /\ ix.cols = s_frame_width(cal)
    /\ \A p \in Positions(ix.rows, ix.cols) :
          ix.at[p] >= 0 - NumLayers /\ ix.at[p] < NumLayers

\* data[i, j, index]; a negative position counts from the end.
array_lookup(ix) ==
    [rows |-> ix.rows, cols |-> ix.cols,
     at |-> [p \in Positions(ix.rows, ix.cols) |->
                BlockData(p, IF ix.at[p] < 0 THEN NumLayers + ix.at[p] ELSE ix.at[p])]]

\* numpy.ma.masked_array(values, mask=m)
masked_array(values, m) == [data |-> values, mask |-> m]

NoResult == masked_array(NoArray, nomask)

\* ------------------------------------------------------------------------
\* Positions
\* ------------------------------------------------------------------------

\* Statements of update() (TopoModule.update: sensor read, render, trigger).
UpdatePcs == {"get_frame", "render_frame", "trigger"}

\* A started thread that has not left thread_loop.
AlivePcs == {"test", "acquire", "release"} \cup UpdatePcs

Alive(w) == wpc[w] \in AlivePcs

InUpdate(w) == wpc[w] \in UpdatePcs

\* Thread.is_alive() is False: the loop ended or an exception left update().
Terminated(w) == wpc[w] \in {"finished", "raised"}

\* A Thread object nothing refers to any more (a dead worker that still holds
\* the lock keeps its identity, as the lock records who acquired it).
Free(w) ==
    /\ wpc[w] \in {"none", "created", "finished"}
    /\ thread # w
    /\ lock # w
    /\ \A c \in Callers : jt[c] # w

FreeIds == {w \in ThreadIds : Free(w)}

\* Forgets the Thread objects that nothing refers to any more (Python frees
\* them): wp with every unreferenced dead or never started thread removed.
Collect(wp, th, lk, j) ==
    [w \in ThreadIds |->
        IF /\ wp[w] \in {"created", "finished"}
           /\ th # w
           /\ lk # w
           /\ \A c \in Callers : j[c] # w
        THEN "none" ELSE wp[w]]

MinOf(S) == CHOOSE x \in S : \A y \in S : x <= y

\* Callers that are on their way to creating a Thread object in run().
StartingCallers ==
    {c \in Callers : incb[c] \/ cpc[c] \in {"resume_test", "run_test", "run_set", "run_new"}}

\* Threads that count against MaxWorkers.
Occupied == {w \in ThreadIds : Alive(w) \/ (wpc[w] = "created" /\ thread = w)}

\* A further call that may start a thread stays within MaxWorkers.
MayStart == Cardinality(Occupied) + Cardinality(StartingCallers) < MaxWorkers

\* ------------------------------------------------------------------------
\* CalibrationData and its JSON file
\* ------------------------------------------------------------------------

\* Python values held by the attributes of a CalibrationData object.
PyInt(n) == [t |-> "int", v |-> n]

\* The float n.0 (box sizes are float(event.new) of an integer widget).
PyFloat(n) == [t |-> "float", v |-> n]

PyStr(s) == [t |-> "str", v |-> s]

PyNone == [t |-> "None"]

PyList(items) == [t |-> "list", v |-> items]

\* Python's ==: numbers compare by value across int and float, everything
\* else by type and content.
PyEq(a, b) ==
    IF a.t \in {"int", "float"} /\ b.t \in {"int", "float"}
      THEN a.v = b.v
      ELSE a = b

\* self.version
CurrentVersion == "1.1alpha"

\* The attributes CalibrationData.__init__ sets with its default arguments.
Defaults ==
    [version |-> PyStr(CurrentVersion),
     p_width |-> PyInt(1280), p_height |-> PyInt(800),
     p_frame_top |-> PyInt(0), p_frame_left |-> PyInt(0),
     p_frame_width |-> PyInt(600), p_frame_height |-> PyInt(450),
     s_name |-> PyStr("generic"), s_width |-> PyInt(500), s_height |-> PyInt(400),
     s_top |-> PyInt(10), s_right |-> PyInt(10),
     s_bottom |-> PyInt(10), s_left |-> PyInt(10),
     s_min |-> PyInt(700), s_max |-> PyInt(1500),
     box_width |-> PyFloat(1000), box_height |-> PyFloat(800),
     aruco_corners |-> PyNone, camera_mtx |-> PyNone, camera_dist |-> PyNone]

\* Values the calibration widgets and the automatic calibration write.
IntChoices ==
    [p_frame_top |-> {0, 40}, p_frame_left |-> {0, -5},
     p_frame_width |-> {600, 640}, p_frame_height |-> {450, 480},
     s_top |-> {10, 0}, s_right |-> {10, 20},
     s_bottom |-> {10, 30}, s_left |-> {10, 1},
     s_min |-> {700, 650}, s_max |-> {1500, 1400}]

BoxChoices == [box_width |-> {1000, 1200}, box_height |-> {800, 750}]

\* name, depth_width and depth_height of the sensor classes.
Sensors ==
    {[name |-> "dummy", depth_width |-> 512, depth_height |-> 424],
     [name |-> "kinect_v1", depth_width |-> 320, depth_height |-> 240],
     [name |-> "kinect_v2", depth_width |-> 512, depth_height |-> 424]}

\* projector_resolution handed to Sandbox
Resolutions == {<<1920, 1080>>}

\* mtx.tolist() and dist.tolist() of a camera calibration: nested lists of floats.
CameraMatrices == {PyList(<<PyList(<<PyFloat(525), PyFloat(0)>>),
                            PyList(<<PyFloat(0), PyFloat(1)>>)>>)}
CameraDistortions == {PyList(<<PyList(<<PyFloat(0), PyFloat(-1)>>)>>)}

Abs(n) == IF n < 0 THEN 0 - n ELSE n

\* json.dump of one value: the JSON token written for it.  A number is its
\* sign, its integer digits and the digits after the point (none for an
\* int, "0" for the float n.0); list and tuple both become an array.
RECURSIVE JsonEncode(_)
JsonEncode(x) ==
    CASE x.t = "int" ->
           [j |-> "number", neg |-> x.v < 0, int |-> Abs(x.v), frac |-> <<>>]
      [] x.t = "float" ->
           [j |-> "number", neg |-> x.v < 0, int |-> Abs(x.v), frac |-> <<0>>]
      [] x.t = "str" -> [j |-> "string", chars |-> x.v]
      [] x.t = "None" -> [j |-> "null"]
      [] x.t \in {"list", "tuple"} ->
           [j |-> "array", items |-> [i \in 1 .. Len(x.v) |-> JsonEncode(x.v[i])]]

\* json.load of one token: a number without fraction digits is an int, one
\* with them a float; an array is a list.
RECURSIVE JsonDecode(_)
JsonDecode(tok) ==
    CASE tok.j = "number" ->
           LET n == IF tok.neg THEN 0 - tok.int ELSE tok.int
           IN  IF tok.frac = <<>> THEN PyInt(n) ELSE PyFloat(n)
      [] tok.j = "string" -> PyStr(tok.chars)
      [] tok.j = "null" -> PyNone
      [] tok.j = "array" ->
           PyList([i \in 1 .. Len(tok.items) |-> JsonDecode(tok.items[i])])

\* json.dump(self.__dict__, calibration_json): one member per attribute.
json_dump(d) == [k \in DOMAIN d |-> JsonEncode(d[k])]

\* json.load(calibration_json)
json_load(text) == [k \in DOMAIN text |-> JsonDecode(text[k])]

\* No file has been written under the chosen file name.
NoFile == <<>>

\* No object has been constructed from the file.
NoObject == <<>>

\* CalibrationData.save_json: the text written to the file.
save_json(self) == json_dump(self)

\* (mutant) the version test is inverted
load_json_Incompatible(self, text) ==
    LET data == json_load(text)
    IN  IF data.version # self.version THEN data ELSE self

\* CalibrationData.load_json: the object's __dict__ afterwards.
load_json(self, text) ==
    LET data == json_load(text)
    IN  IF data.version = self.version THEN data ELSE self

\* CalibrationData(file=f): the defaults, then load_json if a file is given.
CalibrationData(f) ==
    IF f = NoFile THEN Defaults ELSE load_json(Defaults, f)

\* A calibration file left by release 1.0alpha: no camera parameters yet.
ForeignFiles ==
    {json_dump([k \in DOMAIN Defaults \ {"camera_mtx", "camera_dist"} |->
                  IF k = "version" THEN PyStr("1.0alpha")
                  ELSE IF k = "s_top" THEN PyInt(n) ELSE Defaults[k]]) :
        n \in {25}}

\* ------------------------------------------------------------------------
\* ArucoMarkers: the markers tracked across frames
\* ------------------------------------------------------------------------

\* Number of distinct marker ids the camera can see.
MaxMarkers == 2

MarkerIds == 1 .. MaxMarkers

\* (Depth_x, Depth_y) of a detected marker.
MarkerPositions == {<<3, 4>>, <<5, 4>>}

\* self.threshold = 10.0
threshold == 10

\* pd.DataFrame(): a data frame is its rows by index; this one has none.
NoMarkers == <<>>

\* A row of markers_in_frame: search_aruco inserts the column counter = 0.
MarkerRow(pos) == [counter |-> 0, pos |-> pos]

\* What search_aruco can leave in markers_in_frame: every id at most once.
Detections ==
    UNION {[S -> {MarkerRow(pos) : pos \in MarkerPositions}] : S \in SUBSET MarkerIds}

\* (mutant) a marker already tracked keeps its old row
MarkersFound_AppendOnly(am, mf) ==
    [i \in DOMAIN am \cup DOMAIN mf |-> IF i \in DOMAIN am THEN am[i] ELSE mf[i]]

\* update_marker_dict, first loop: a marker of the frame is appended when it
\* is not in aruco_markers, else its row is replaced by the frame's row.
MarkersFound(am, mf) ==
    [i \in DOMAIN am \cup DOMAIN mf |-> IF i \in DOMAIN mf THEN mf[i] ELSE am[i]]

\* update_marker_dict, second loop: the counter of a marker that is not in
\* the frame goes up by one, and a marker whose counter is >= threshold is
\* dropped.
MarkersAged(am, mf) ==
    LET counted == [i \in DOMAIN am |->
                      IF i \notin DOMAIN mf
                        THEN [am[i] EXCEPT !.counter = @ + 1]
                        ELSE am[i]]
        kept == {i \in DOMAIN am : ~(counted[i].counter >= threshold)}
    IN  [i \in kept |-> counted[i]]

\* ArucoMarkers.update_marker_dict: aruco_markers afterwards.
update_marker_dict(am, mf) == MarkersAged(MarkersFound(am, mf), mf)

\* ------------------------------------------------------------------------
\* Scale and Grid: the depth grid of the GemPy module
\* ------------------------------------------------------------------------

\* self.depth_grid = None, self.empty_depth_grid = None
NoGrid == [n |-> -1, at |-> <<>>]

\* A 2-d array of n rows, given as the sequence of its rows.
GridOf(rows) == [n |-> Len(rows), at |-> rows]

\* Scale.extent of the model: (x0, x1, y0, y1, z0, z1) for a calibration.
\* The first is the default (box size and sensor range), the second an
\* extent handed over by a geological model.
ModelExtents(cal) ==
    {<<0, 12, 0, 24, cal.s_min, cal.s_max>>,
     <<12, 36, 0, 12, 0, 3 * (cal.s_max - cal.s_min)>>}

\* Scale.output_res
output_res(cal) == <<s_frame_width(cal), s_frame_height(cal)>>

\* numpy.linspace(a, b, n)[i], 0-based
linspace(a, b, n, i) == IF n = 1 THEN a ELSE a + (i * (b - a)) \div (n - 1)

\* Grid.create_empty_depth_grid: numpy.vstack([xx.ravel(), yy.ravel()]).T of
\* the meshgrid, one row (x, y) per pixel in row-major order.
create_empty_depth_grid(ext, cal) ==
    LET w == output_res(cal)[1]
        h == output_res(cal)[2]
    IN  GridOf([k \in 1 .. (w * h) |->
                  <<linspace(ext[1], ext[2], w, (k - 1) % w),
                    linspace(ext[3], ext[4], h, (k - 1) \div w)>>])

\* update_grid: scaled_frame at one pixel
scaled_depth(x, ext, cal) ==
    ext[6] - ((x - cal.s_min) * (ext[6] - ext[5])) \div (cal.s_max - cal.s_min)

\* update_grid: flattened_depth = scaled_frame.ravel()
flattened_depth(a, ext, cal) ==
    [k \in 1 .. (a.rows * a.cols) |->
        scaled_depth(a.at[<<(k - 1) \div a.cols, (k - 1) % a.cols>>], ext, cal)]

\* numpy.c_[empty_depth_grid, flattened_depth] raises ValueError unless both
\* have the same number of rows.
CanStack(edg, a) == edg.n = a.rows * a.cols

\* update_grid: the local depth_grid = numpy.c_[self.empty_depth_grid, flattened_depth]
stacked_depth_grid(edg, a, ext, cal) ==
    GridOf([k \in 1 .. edg.n |->
              <<edg.at[k][1], edg.at[k][2], flattened_depth(a, ext, cal)[k]>>])

\* ------------------------------------------------------------------------
\* Plot (plot/plot.py): colour range and contour levels
\* ------------------------------------------------------------------------

\* numpy.arange(start, stop, step) with step > 0:
\* start, start + step, ... as long as the value is below stop.
arange(start, stop, step) ==
    LET n == IF stop > start THEN (stop - start + step - 1) \div step ELSE 0
    IN  [k \in 1 .. n |-> start + (k - 1) * step]

\* Positions of the IntSliders 'Vertical minimum' and 'Vertical maximum'
\* (start=0, end=2000), and the sensor ranges a calibration file may hold.
SliderValues == {0, 100, 250, 400}
LoadedRanges == {<<0, 400>>, <<100, 250>>, <<250, 400>>}

\* contours_step a module is constructed with (Plot's default is 100).
ContourSteps == {50, 100}

\* No keyword arguments.
NoKwargs == [k \in {} |-> 0]

\* Plot.__init__(calibrationdata, **kwargs): vmin and vmax are copied from the
\* calibration when the keyword is None (absent).
Plot(calibrationdata, kwargs) ==
    [vmin |-> IF "vmin" \in DOMAIN kwargs
                THEN kwargs.vmin ELSE calibrationdata.s_min,
     vmax |-> IF "vmax" \in DOMAIN kwargs
                THEN kwargs.vmax ELSE calibrationdata.s_max,
     contours_step |-> IF "contours_step" \in DOMAIN kwargs
                         THEN kwargs.contours_step ELSE 100]

\* Plot.contours_levels: numpy.arange(self.vmin, self.vmax, self.contours_step)
contours_levels(self) == arange(self.vmin, self.vmax, self.contours_step)

\* No contour has been drawn on the axes.
NoLevels == <<-1>>

\* ------------------------------------------------------------------------
\* Module.__init__
\* ------------------------------------------------------------------------
ModuleInit ==
    /\ thread_status = "stopped"
    /\ lock = 0
    /\ thread = NoThread
    /\ wpc = [w \in ThreadIds |-> "none"]
    /\ cpc = [c \in Callers |-> "idle"]
    /\ jt = [c \in Callers |-> NoThread]
    /\ incb = [c \in Callers |-> FALSE]
    /\ param = 0

\* BlockModule.__init__: index and result are None, no update() is under way.
BlockInit(cal) ==
    /\ calib = cal
    /\ raw = NoArray
    /\ frame = NoArray
    /\ dmask = nomask
    /\ index = NoArray
    /\ result = NoResult
    /\ bpc = "get_frame"

\* calib = CalibrationData(): nothing saved, nothing loaded.
CalibInit ==
    /\ cdata = CalibrationData(NoFile)
    /\ jfile = NoFile
    /\ loaded = NoObject
    /\ jpc = "calibrating"

\* ArucoMarkers.__init__: both data frames are empty.
ArucoInit ==
    /\ markers_in_frame = NoMarkers
    /\ aruco_markers = NoMarkers
    /\ missed = [i \in MarkerIds |-> 0]
    /\ tracked_before = {}
    /\ apc = "search"

\* Scale.__init__ with the extent; Grid.__init__: both grids are None.
GridInit(ext) ==
    /\ extent = ext
    /\ empty_depth_grid = NoGrid
    /\ depth_grid = NoGrid
    /\ gpc = "setup"

\* CalibModule.__init__: Module.__init__ builds self.plot from the keyword
\* arguments, then self.calib_plot is built without vmin, vmax or step.
PlotInit(cal, kwargs) ==
    /\ plot = Plot(cal, kwargs)
    /\ calib_plot = Plot(cal, NoKwargs)
    /\ drawn_levels = [plot |-> NoLevels, calib_plot |-> NoLevels]
    /\ ppc = "constructed"

\* PrototypingModule.__init__: no function is connected.
PrototypingInit ==
    /\ function_to_run = "None"
    /\ active_connection = FALSE
    /\ uframe = 0
    /\ drawn = [by |-> "nothing", frame |-> 0]
    /\ failed = "no"

\* Scale.__init__ without extent: box size and sensor range.
DefaultExtent == <<0, 1000, 0, 800, DefaultCalib.s_min, DefaultCalib.s_max>>

Init ==
    /\ ModuleInit
    /\ BlockInit(DefaultCalib)
    /\ CalibInit
    /\ ArucoInit
    /\ GridInit(DefaultExtent)
    /\ PlotInit(DefaultCalib, NoKwargs)
    /\ PrototypingInit

\* The call of caller c ends (returns, or an exception leaves it).
Return(c) ==
    /\ cpc' = [cpc EXCEPT ![c] = "idle"]
    /\ incb' = [incb EXCEPT ![c] = FALSE]

\* Caller c moves on to its next statement.
Goto(c, next) ==
    /\ cpc' = [cpc EXCEPT ![c] = next]
    /\ UNCHANGED incb

\* ------------------------------------------------------------------------
\* Module.thread_loop, executed by thread w
\* ------------------------------------------------------------------------

\* while self.thread_status == 'running':
LoopTest(w) ==
    /\ wpc[w] = "test"
    /\ wpc' = Collect([wpc EXCEPT ![w] =
                 IF thread_status = "running" THEN "acquire" ELSE "finished"],
                       thread, lock, jt)
    /\ UNCHANGED <<thread_status, lock, thread, cpc, jt, incb, param, fvars, jvars, avars, gvars, pvars, uvars>>

\* self.lock.acquire(); self.update() is entered
LockAcquire(w) ==
    /\ wpc[w] = "acquire"
    /\ lock = 0
    /\ lock' = w
    /\ wpc' = [wpc EXCEPT ![w] = "get_frame"]
    /\ UNCHANGED <<thread_status, thread, cpc, jt, incb, param, fvars, jvars, avars, gvars, pvars, uvars>>

\* update(): frame = self.sensor.get_filtered_frame()
UpdateGetFrame(w) ==
    /\ wpc[w] = "get_frame"
    /\ wpc' = [wpc EXCEPT ![w] = "render_frame"]
    /\ UNCHANGED <<thread_status, lock, thread, cpc, jt, incb, param, fvars, jvars, avars, gvars, pvars, uvars>>

\* update(): self.plot.render_frame(frame)
UpdateRender(w) ==
    /\ wpc[w] = "render_frame"
    /\ wpc' = [wpc EXCEPT ![w] = "trigger"]
    /\ UNCHANGED <<thread_status, lock, thread, cpc, jt, incb, param, fvars, jvars, avars, gvars, pvars, uvars>>

\* update(): self.projector.trigger(); update() returns
UpdateTrigger(w) ==
    /\ wpc[w] = "trigger"
    /\ wpc' = [wpc EXCEPT ![w] = "release"]
    /\ UNCHANGED <<thread_status, lock, thread, cpc, jt, incb, param, fvars, jvars, avars, gvars, pvars, uvars>>

\* self.lock.release()
LockRelease(w) ==
    /\ wpc[w] = "release"
    /\ lock' = 0
    /\ wpc' = [wpc EXCEPT ![w] = "test"]
    /\ UNCHANGED <<thread_status, thread, cpc, jt, incb, param, fvars, jvars, avars, gvars, pvars, uvars>>

\* An exception leaves update(): thread_loop has no try/finally, the thread
\* ends and lock.release() is never reached.
UpdateRaise(w) ==
    /\ InUpdate(w)
    /\ wpc' = [wpc EXCEPT ![w] = "raised"]
    /\ UNCHANGED <<thread_status, lock, thread, cpc, jt, incb, param, fvars, jvars, avars, gvars, pvars, uvars>>

Worker(w) ==
    \/ LoopTest(w)
    \/ LockAcquire(w)
    \/ UpdateGetFrame(w)
    \/ UpdateRender(w)
    \/ UpdateTrigger(w)
    \/ LockRelease(w)

\* ------------------------------------------------------------------------
\* Module.run, called by c (directly or from resume)
\* ------------------------------------------------------------------------

\* if self.thread_status != 'running': ... else: print('Thread already running.')
RunEnter(c) ==
    /\ IF thread_status # "running" THEN Goto(c, "run_set") ELSE Return(c)
    /\ UNCHANGED <<thread_status, lock, thread, wpc, jt, param, fvars, jvars, avars, gvars, pvars, uvars>>

\* c calls run()
CallRun(c) ==
    /\ cpc[c] = "idle"
    /\ MayStart
    /\ RunEnter(c)

\* resume() calls self.run()
RunTest(c) ==
    /\ cpc[c] = "run_test"
    /\ RunEnter(c)

\* self.thread_status = 'running'
RunSet(c) ==
    /\ cpc[c] = "run_set"
    /\ thread_status' = "running"
    /\ Goto(c, "run_new")
    /\ UNCHANGED <<lock, thread, wpc, jt, param, fvars, jvars, avars, gvars, pvars, uvars>>

\* self.thread = threading.Thread(target=self.thread_loop, daemon=True)
RunNew(c) ==
    /\ cpc[c] = "run_new"
    /\ FreeIds # {}
    /\ LET w == MinOf(FreeIds) IN
         /\ thread' = w
         /\ wpc' = Collect([wpc EXCEPT ![w] = "created"], w, lock, jt)
    /\ Goto(c, "run_start")
    /\ UNCHANGED <<thread_status, lock, jt, param, fvars, jvars, avars, gvars, pvars, uvars>>

\* self.thread.start(): starts whatever self.thread now refers to; a thread
\* that was already started makes start() raise RuntimeError.
RunStart(c) ==
    /\ cpc[c] = "run_start"
    /\ wpc' = IF wpc[thread] = "created"
                THEN [wpc EXCEPT ![thread] = "test"]
                ELSE wpc
    /\ Return(c)
    /\ UNCHANGED <<thread_status, lock, thread, jt, param, fvars, jvars, avars, gvars, pvars, uvars>>

\* ------------------------------------------------------------------------
\* Module.stop
\* ------------------------------------------------------------------------

\* c calls stop(): if self.thread_status is not 'stopped': ...
CallStop(c) ==
    /\ cpc[c] = "idle"
    /\ IF thread_status # "stopped" THEN Goto(c, "stop_set") ELSE Return(c)
    /\ UNCHANGED <<thread_status, lock, thread, wpc, jt, param, fvars, jvars, avars, gvars, pvars, uvars>>

\* self.thread_status = 'stopped'
StopSet(c) ==
    /\ cpc[c] = "stop_set"
    /\ thread_status' = "stopped"
    /\ Goto(c, "stop_join")
    /\ UNCHANGED <<lock, thread, wpc, jt, param, fvars, jvars, avars, gvars, pvars, uvars>>

\* ------------------------------------------------------------------------
\* Module.pause
\* ------------------------------------------------------------------------

\* What follows a pause() that is over: the callback's write, or nothing.
AfterPause(c) == IF incb[c] THEN Goto(c, "cb_write") ELSE Return(c)

\* c calls pause():
\* if self.thread_status == 'running': ... else: print('There is no thread running.')
CallPause(c) ==
    /\ cpc[c] = "idle"
    /\ IF thread_status = "running" THEN Goto(c, "pause_set") ELSE Return(c)
    /\ UNCHANGED <<thread_status, lock, thread, wpc, jt, param, fvars, jvars, avars, gvars, pvars, uvars>>

\* self.thread_status = 'paused'
PauseSet(c) ==
    /\ cpc[c] = "pause_set"
    /\ thread_status' = "paused"
    /\ Goto(c, "pause_join")
    /\ UNCHANGED <<lock, thread, wpc, jt, param, fvars, jvars, avars, gvars, pvars, uvars>>

\* ------------------------------------------------------------------------
\* self.thread.join() in stop and pause
\* ------------------------------------------------------------------------

\* self.thread is read and join() is entered.  None has no join
\* (AttributeError) and a thread that was not started cannot be joined
\* (RuntimeError): the exception ends the call and the callback around it.
JoinEnter(c) ==
    /\ cpc[c] \in {"stop_join", "pause_join"}
    /\ IF thread = NoThread \/ wpc[thread] = "created"
         THEN /\ Return(c)
              /\ UNCHANGED jt
         ELSE /\ jt' = [jt EXCEPT ![c] = thread]
              /\ Goto(c, IF cpc[c] = "stop_join" THEN "stop_wait" ELSE "pause_wait")
    /\ UNCHANGED <<thread_status, lock, thread, wpc, param, fvars, jvars, avars, gvars, pvars, uvars>>

\* join() returns once the joined thread has terminated.
JoinReturn(c) ==
    /\ cpc[c] \in {"stop_wait", "pause_wait"}
    /\ Terminated(jt[c])
    /\ jt' = [jt EXCEPT ![c] = NoThread]
    /\ wpc' = Collect(wpc, thread, lock, [jt EXCEPT ![c] = NoThread])
    /\ IF cpc[c] = "pause_wait" THEN AfterPause(c) ELSE Return(c)
    /\ UNCHANGED <<thread_status, lock, thread, param, fvars, jvars, avars, gvars, pvars, uvars>>

\* ------------------------------------------------------------------------
\* Module.resume
\* ------------------------------------------------------------------------

\* if self.thread_status != 'stopped': self.run() else: print('Thread already stopped.')
ResumeEnter(c) ==
    /\ IF thread_status # "stopped" THEN Goto(c, "run_test") ELSE Return(c)
    /\ UNCHANGED <<thread_status, lock, thread, wpc, jt, param, fvars, jvars, avars, gvars, pvars, uvars>>

\* c calls resume()
CallResume(c) ==
    /\ cpc[c] = "idle"
    /\ MayStart
    /\ ResumeEnter(c)

\* the callback calls self.resume()
ResumeTest(c) ==
    /\ cpc[c] = "resume_test"
    /\ ResumeEnter(c)

\* ------------------------------------------------------------------------
\* Widget callbacks
\* ------------------------------------------------------------------------

\* A callback of the form  self.pause(); <write>; self.resume()
\* (GradientModule._callback_gradient_dx, CalibModule._callback_s_min, ...).
CallbackPaused(c) ==
    /\ cpc[c] = "idle"
    /\ MayStart
    /\ cpc' = [cpc EXCEPT ![c] =
                 IF thread_status = "running" THEN "pause_set" ELSE "cb_write"]
    /\ incb' = [incb EXCEPT ![c] = TRUE]
    /\ UNCHANGED <<thread_status, lock, thread, wpc, jt, param, fvars, jvars, avars, gvars, pvars, uvars>>

\* the write between pause() and resume(), e.g. self.grad_type = i
CallbackWrite(c) ==
    /\ cpc[c] = "cb_write"
    /\ \E v \in ParamValues \ {param} : param' = v
    /\ cpc' = [cpc EXCEPT ![c] = "resume_test"]
    /\ incb' = [incb EXCEPT ![c] = FALSE]
    /\ UNCHANGED <<thread_status, lock, thread, wpc, jt, fvars, jvars, avars, gvars, pvars, uvars>>

\* A callback that writes without pause()/resume()
\* (GradientModule._callback_lightsource_azdeg: self.azdeg = event.new).
CallbackUnpaused(c) ==
    /\ cpc[c] = "idle"
    /\ \E v \in ParamValues \ {param} : param' = v
    /\ UNCHANGED <<thread_status, lock, thread, wpc, cpc, jt, incb, fvars, jvars, avars, gvars, pvars, uvars>>

Caller(c) ==
    \/ RunTest(c)
    \/ RunSet(c)
    \/ RunNew(c)
    \/ RunStart(c)
    \/ StopSet(c)
    \/ PauseSet(c)
    \/ JoinEnter(c)
    \/ JoinReturn(c)
    \/ ResumeTest(c)
    \/ CallbackWrite(c)

Call(c) ==
    \/ CallRun(c)
    \/ CallStop(c)
    \/ CallPause(c)
    \/ CallResume(c)
    \/ CallbackPaused(c)
    \/ CallbackUnpaused(c)

Next ==
    \/ \E w \in ThreadIds : Worker(w)
    \/ \E w \in ThreadIds : UpdateRaise(w)
    \/ \E c \in Callers : Caller(c)
    \/ \E c \in Callers : Call(c)

Spec == Init /\ [][Next]_vars

\* The scheduler runs every thread that can take a step: a started worker
\* and a caller inside a method go on; nobody is obliged to make a new call.
LiveSpec ==
    /\ Spec
    /\ \A w \in ThreadIds : WF_vars(Worker(w))
    /\ \A c \in Callers : WF_vars(Caller(c))

\* ------------------------------------------------------------------------
\* BlockModule.update, statement by statement
\* ------------------------------------------------------------------------

\* frame = self.sensor.get_filtered_frame()
BGetFrame ==
    /\ bpc = "get_frame"
    /\ \E f \in SensorFrames :
          /\ raw' = f
          /\ frame' = f
    /\ bpc' = "crop"
    /\ UNCHANGED <<calib, dmask, index, result, tvars, jvars, avars, gvars, pvars, uvars>>

\* if self.crop is True: frame = self.crop_frame(frame)
\* (BlockModule.__init__ hands its crop argument to Module's Aruco parameter,
\*  so self.crop keeps Module's default True)
BCrop ==
    /\ bpc = "crop"
    /\ frame' = crop_frame(frame, calib)
    /\ bpc' = "depth_mask"
    /\ UNCHANGED <<calib, raw, dmask, index, result, tvars, jvars, avars, gvars, pvars, uvars>>

\* (mutant) the mask is taken of the frame as clipped
BDepthMask_OfClipped ==
    /\ bpc = "depth_mask"
    /\ dmask' = depth_mask(clip_frame(frame, calib), calib)
    /\ bpc' = "clip"
    /\ UNCHANGED <<calib, raw, frame, index, result, tvars, jvars, avars, gvars, pvars, uvars>>

\* depth_mask = self.depth_mask(frame)
BDepthMask ==
    /\ bpc = "depth_mask"
    /\ dmask' = depth_mask(frame, calib)
    /\ bpc' = "clip"
    /\ UNCHANGED <<calib, raw, frame, index, result, tvars, jvars, avars, gvars, pvars, uvars>>

\* frame = self.clip_frame(frame)
BClip ==
    /\ bpc = "clip"
    /\ frame' = clip_frame(frame, calib)
    /\ bpc' = "scale"
    /\ UNCHANGED <<calib, raw, dmask, index, result, tvars, jvars, avars, gvars, pvars, uvars>>

\* index = (frame - zmin) / (zmax - zmin) * (data.shape[2] - 1.0)
\* index = index.round(); self.index = index.astype('int')
BScale ==
    /\ bpc = "scale"
    /\ index' = z_index(frame, calib)
    /\ bpc' = "lookup"
    /\ UNCHANGED <<calib, raw, frame, dmask, result, tvars, jvars, avars, gvars, pvars, uvars>>

\* i, j = numpy.indices(data[..., 0].shape); self.result = data[i, j, self.index]
\* (IndexError leaves update() when the shapes or the positions do not fit)
BLookup ==
    /\ bpc = "lookup"
    /\ IF CanLookup(index, calib)
         THEN /\ result' = masked_array(array_lookup(index), nomask)
              /\ bpc' = "apply_mask"
         ELSE /\ result' = result
              /\ bpc' = "raised"
    /\ UNCHANGED <<calib, raw, frame, dmask, index, tvars, jvars, avars, gvars, pvars, uvars>>

\* self.result = numpy.ma.masked_array(self.result, mask=depth_mask)
BApplyMask ==
    /\ bpc = "apply_mask"
    /\ result' = masked_array(result.data, dmask)
    /\ bpc' = "render"
    /\ UNCHANGED <<calib, raw, frame, dmask, index, tvars, jvars, avars, gvars, pvars, uvars>>

\* self.plot.render_frame(self.result, contourdata=frame, ...);
\* self.projector.trigger(); update() returns and its locals are gone.
\* self.index and self.result keep their values, but nothing reads them
\* before the next update() overwrites them: the model forgets them too.
BRender ==
    /\ bpc = "render"
    /\ raw' = NoArray
    /\ frame' = NoArray
    /\ dmask' = nomask
    /\ index' = NoArray
    /\ result' = NoResult
    /\ bpc' = "get_frame"
    /\ UNCHANGED <<calib, tvars, jvars, avars, gvars, pvars, uvars>>

BlockUpdate ==
    \/ BGetFrame
    \/ BCrop
    \/ BDepthMask
    \/ BClip
    \/ BScale
    \/ BLookup
    \/ BApplyMask
    \/ BRender

InitFrame ==
    /\ ModuleInit
    /\ \E cal \in Calibrations : BlockInit(cal)
    /\ CalibInit
    /\ ArucoInit
    /\ GridInit(DefaultExtent)
    /\ PlotInit(DefaultCalib, NoKwargs)
    /\ PrototypingInit

NextFrame == BlockUpdate

SpecFrame == InitFrame /\ [][NextFrame]_vars

\* ------------------------------------------------------------------------
\* Calibrating, saving the calibration and starting from a saved one
\* ------------------------------------------------------------------------

\* Sandbox.__init__: self.calib.p_width, p_height = projector_resolution
SetResolution ==
    /\ jpc = "calibrating"
    /\ \E res \in Resolutions :
          cdata' = [cdata EXCEPT !.p_width = PyInt(res[1]),
                                 !.p_height = PyInt(res[2])]
    /\ UNCHANGED <<jfile, loaded, jpc, tvars, fvars, avars, gvars, pvars, uvars>>

\* Sensor.__init__: the sensor writes its name and resolution
SensorInit ==
    /\ jpc = "calibrating"
    /\ \E s \in Sensors :
          cdata' = [cdata EXCEPT !.s_name = PyStr(s.name),
                                 !.s_width = PyInt(s.depth_width),
                                 !.s_height = PyInt(s.depth_height)]
    /\ UNCHANGED <<jfile, loaded, jpc, tvars, fvars, avars, gvars, pvars, uvars>>

\* _callback_p_frame_*, _callback_s_*, _callback_automatic_calibration,
\* _callback_automatic_cropping, _update_sensor_calib: self.calib.<k> = int
CallbackCalib ==
    /\ jpc = "calibrating"
    /\ \E k \in DOMAIN IntChoices : \E n \in IntChoices[k] :
          cdata' = [cdata EXCEPT ![k] = PyInt(n)]
    /\ UNCHANGED <<jfile, loaded, jpc, tvars, fvars, avars, gvars, pvars, uvars>>

\* _callback_box_width, _callback_box_height: self.calib.<k> = float(event.new)
CallbackBox ==
    /\ jpc = "calibrating"
    /\ \E k \in DOMAIN BoxChoices : \E n \in BoxChoices[k] :
          cdata' = [cdata EXCEPT ![k] = PyFloat(n)]
    /\ UNCHANGED <<jfile, loaded, jpc, tvars, fvars, avars, gvars, pvars, uvars>>

\* ArucoMarkers: self.calib.camera_mtx = mtx.tolist(); camera_dist likewise
CalibrateCamera ==
    /\ jpc = "calibrating"
    /\ \E m \in CameraMatrices, d \in CameraDistortions :
          cdata' = [cdata EXCEPT !.camera_mtx = m, !.camera_dist = d]
    /\ UNCHANGED <<jfile, loaded, jpc, tvars, fvars, avars, gvars, pvars, uvars>>

\* _callback_json_save: self.calib.save_json(file=self.json_filename)
CallbackJsonSave ==
    /\ jpc = "calibrating"
    /\ jfile' = save_json(cdata)
    /\ jpc' = "saved"
    /\ UNCHANGED <<cdata, loaded, tvars, fvars, avars, gvars, pvars, uvars>>

\* The file name refers to a file an older release has written.
ForeignFile ==
    /\ jpc = "calibrating"
    /\ jfile' \in ForeignFiles
    /\ jpc' = "foreign"
    /\ UNCHANGED <<cdata, loaded, tvars, fvars, avars, gvars, pvars, uvars>>

\* CalibrationData(file=calibration_file)
Construct ==
    /\ jpc \in {"saved", "foreign"}
    /\ loaded' = CalibrationData(jfile)
    /\ jpc' = IF jpc = "saved" THEN "loaded" ELSE "loaded_foreign"
    /\ UNCHANGED <<cdata, jfile, tvars, fvars, avars, gvars, pvars, uvars>>

\* Sandbox.__init__: self.calib is the constructed object from here on; the
\* next save goes to a file name not used before.
SandboxInit ==
    /\ jpc \in {"loaded", "loaded_foreign"}
    /\ cdata' = loaded
    /\ loaded' = NoObject
    /\ jfile' = NoFile
    /\ jpc' = "calibrating"
    /\ UNCHANGED <<tvars, fvars, avars, gvars, pvars, uvars>>

NextJson ==
    \/ SetResolution
    \/ SensorInit
    \/ CallbackCalib
    \/ CallbackBox
    \/ CalibrateCamera
    \/ CallbackJsonSave
    \/ ForeignFile
    \/ Construct
    \/ SandboxInit

SpecJson == Init /\ [][NextJson]_vars

\* ------------------------------------------------------------------------
\* The marker part of update(): search_aruco, then update_marker_dict
\* ------------------------------------------------------------------------

\* self.Aruco.search_aruco(): the markers of the current colour frame
SearchAruco ==
    /\ apc = "search"
    /\ markers_in_frame' \in Detections
    /\ apc' = "update"
    /\ UNCHANGED <<aruco_markers, missed, tracked_before, tvars, fvars, jvars, gvars, pvars, uvars>>

\* self.Aruco.update_marker_dict().  missed counts, from the frames alone,
\* the consecutive frames in which a tracked marker was not detected;
\* tracked_before remembers which markers were tracked before the call.
UpdateMarkerDict ==
    /\ apc = "update"
    /\ aruco_markers' = update_marker_dict(aruco_markers, markers_in_frame)
    /\ missed' = [i \in MarkerIds |->
                    IF i \in DOMAIN markers_in_frame THEN 0
                    ELSE IF i \in DOMAIN aruco_markers THEN missed[i] + 1
                    ELSE 0]
    /\ tracked_before' = DOMAIN aruco_markers
    /\ apc' = "search"
    /\ UNCHANGED <<markers_in_frame, tvars, fvars, jvars, gvars, pvars, uvars>>

NextAruco ==
    \/ SearchAruco
    \/ UpdateMarkerDict

SpecAruco == Init /\ [][NextAruco]_vars

\* ------------------------------------------------------------------------
\* GemPyModule: setup and update with the grid
\* ------------------------------------------------------------------------

\* GemPyModule.setup: self.grid.create_empty_depth_grid()
GSetup ==
    /\ gpc = "setup"
    /\ empty_depth_grid' = create_empty_depth_grid(extent, calib)
    /\ gpc' = "get_frame"
    /\ UNCHANGED <<extent, depth_grid, tvars, fvars, jvars, avars, pvars, uvars>>

\* init_topography / update: frame = self.sensor.get_filtered_frame()
GGetFrame ==
    /\ gpc = "get_frame"
    /\ \E f \in SensorFrames :
          /\ raw' = f
          /\ frame' = f
    /\ gpc' = "crop_clip"
    /\ UNCHANGED <<extent, empty_depth_grid, depth_grid,
                   calib, dmask, index, result, bpc, tvars, jvars, avars, pvars, uvars>>

\* frame = self.crop_frame(frame); frame = self.clip_frame(frame)
GCropClip ==
    /\ gpc = "crop_clip"
    /\ frame' = clip_frame(crop_frame(frame, calib), calib)
    /\ gpc' = "update_grid"
    /\ UNCHANGED <<extent, empty_depth_grid, depth_grid,
                   calib, raw, dmask, index, result, bpc, tvars, jvars, avars, pvars, uvars>>

\* self.grid.update_grid(frame): the method builds the local depth_grid and
\* ends; it has no assignment to self.depth_grid or to self.empty_depth_grid.
GUpdateGrid ==
    /\ gpc = "update_grid"
    /\ gpc' = IF CanStack(empty_depth_grid, frame) THEN "returned" ELSE "raised"
    /\ depth_grid' = depth_grid
    /\ empty_depth_grid' = empty_depth_grid
    /\ UNCHANGED <<extent, tvars, fvars, jvars, avars, pvars, uvars>>

\* topography.values = self.grid.depth_grid; self.grid.depth_grid[:, 2]...:
\* subscripting None raises TypeError.
GUseGrid ==
    /\ gpc = "returned"
    /\ gpc' = IF depth_grid = NoGrid THEN "raised" ELSE "get_frame"
    /\ UNCHANGED <<extent, empty_depth_grid, depth_grid, tvars, fvars, jvars, avars, pvars, uvars>>

NextGrid ==
    \/ GSetup
    \/ GGetFrame
    \/ GCropClip
    \/ GUpdateGrid
    \/ GUseGrid

\* GemPyModule on any calibration and any of the model extents.
InitGrid ==
    /\ ModuleInit
    /\ \E cal \in Calibrations :
          /\ BlockInit(cal)
          /\ \E ext \in ModelExtents(cal) : GridInit(ext)
    /\ CalibInit
    /\ ArucoInit
    /\ PlotInit(DefaultCalib, NoKwargs)
    /\ PrototypingInit

SpecGrid == InitGrid /\ [][NextGrid]_vars

\* ------------------------------------------------------------------------
\* CalibModule: the sensor range sliders and the plots
\* ------------------------------------------------------------------------

\* self.calib_plot.render_frame(self.calib_frame): add_contours draws
\* self.contours_levels of the calibration plot.
update_calib_plot(levels) ==
    [levels EXCEPT !.calib_plot = contours_levels(calib_plot)]

\* CalibModule._callback_s_min: pause(); self.calib.s_min = event.new;
\* update_calib_plot(); resume().  Neither Plot object is written.
CallbackSMin ==
    /\ \E v \in SliderValues : calib' = [calib EXCEPT !.s_min = v]
    /\ drawn_levels' = update_calib_plot(drawn_levels)
    /\ ppc' = "calibrated"
    /\ UNCHANGED <<plot, calib_plot, raw, frame, dmask, index, result, bpc,
                   tvars, jvars, avars, gvars, uvars>>

\* CalibModule._callback_s_max: the same with self.calib.s_max.
CallbackSMax ==
    /\ \E v \in SliderValues : calib' = [calib EXCEPT !.s_max = v]
    /\ drawn_levels' = update_calib_plot(drawn_levels)
    /\ ppc' = "calibrated"
    /\ UNCHANGED <<plot, calib_plot, raw, frame, dmask, index, result, bpc,
                   tvars, jvars, avars, gvars, uvars>>

\* CalibModule.update: self.plot.render_frame(frame, vmin=self.calib.s_min,
\* vmax=self.calib.s_max).  The two arguments are locals of render_frame that
\* colour the mesh; add_contours draws self.contours_levels.
CalibUpdate ==
    /\ drawn_levels' = [drawn_levels EXCEPT !.plot = contours_levels(plot)]
    /\ UNCHANGED <<plot, calib_plot, ppc, tvars, fvars, jvars, avars, gvars, uvars>>

NextPlot ==
    \/ CallbackSMin
    \/ CallbackSMax
    \/ CalibUpdate

\* CalibModule on a calibration with any of the loaded sensor ranges.
InitPlot ==
    /\ ModuleInit
    /\ \E rg \in LoadedRanges, cs \in ContourSteps :
          LET cal == [DefaultCalib EXCEPT !.s_min = rg[1], !.s_max = rg[2]]
          IN  /\ BlockInit(cal)
              /\ PlotInit(cal, [contours_step |-> cs])
    /\ CalibInit
    /\ ArucoInit
    /\ GridInit(DefaultExtent)
    /\ PrototypingInit

SpecPlot == InitPlot /\ [][NextPlot]_vars

\* ------------------------------------------------------------------------
\* Module.crop_frame, crop_frame_workaround, clip_frame and depth_mask,
\* applied to a sensor frame under any calibration the sliders can set
\* ------------------------------------------------------------------------

\* Positions at which frame is the result of clip_frame.
ClipFramePcs == {"clip_frame", "clip_frame_again"}

\* Sensor frames in which every pixel has its own reading, so that a crop is
\* told from any other: a ramp over the rows and columns, at three depths.
RampFrames ==
    {[rows |-> SHeight, cols |-> SWidth,
      at |-> [p \in Positions(SHeight, SWidth) |-> o + SWidth * p[1] + p[2]]] :
        o \in 0 .. 2}

\* frame = self.sensor.get_filtered_frame()
AGetFrame ==
    /\ bpc = "get_frame"
    /\ \E f \in RampFrames :
          /\ raw' = f
          /\ frame' = f
    /\ bpc' = "frame"
    /\ UNCHANGED <<calib, dmask, index, result, tvars, jvars, avars, gvars, pvars, uvars>>

\* frame = self.crop_frame(frame)
ACropFrame ==
    /\ bpc = "frame"
    /\ frame' = crop_frame(frame, calib)
    /\ bpc' = "crop_frame"
    /\ UNCHANGED <<calib, raw, dmask, index, result, tvars, jvars, avars, gvars, pvars, uvars>>

\* frame = self.crop_frame_workaround(frame)
ACropFrameWorkaround ==
    /\ bpc = "frame"
    /\ frame' = crop_frame_workaround(frame, calib)
    /\ bpc' = "crop_frame_workaround"
    /\ UNCHANGED <<calib, raw, dmask, index, result, tvars, jvars, avars, gvars, pvars, uvars>>

\* frame = self.clip_frame(frame), on the sensor frame, on a cropped frame
\* or on a frame that is clipped already
AClipFrame ==
    /\ bpc \in {"frame", "crop_frame", "crop_frame_workaround", "clip_frame"}
    /\ frame' = clip_frame(frame, calib)
    /\ bpc' = IF bpc = "clip_frame" THEN "clip_frame_again" ELSE "clip_frame"
    /\ UNCHANGED <<calib, raw, dmask, index, result, tvars, jvars, avars, gvars, pvars, uvars>>

\* depth_mask = self.depth_mask(frame)
ADepthMask ==
    /\ bpc \in {"frame", "crop_frame", "crop_frame_workaround"} \cup ClipFramePcs
    /\ dmask' = depth_mask(frame, calib)
    /\ bpc' = IF bpc \in ClipFramePcs THEN "depth_mask_of_clipped" ELSE "depth_mask"
    /\ UNCHANGED <<calib, raw, frame, index, result, tvars, jvars, avars, gvars, pvars, uvars>>

NextArray ==
    \/ AGetFrame
    \/ ACropFrame
    \/ ACropFrameWorkaround
    \/ AClipFrame
    \/ ADepthMask

\* A module on any calibration of the sliders.
InitArray ==
    /\ ModuleInit
    /\ \E cal \in AnyCalibrations : BlockInit(cal)
    /\ CalibInit
    /\ ArucoInit
    /\ GridInit(DefaultExtent)
    /\ PlotInit(DefaultCalib, NoKwargs)
    /\ PrototypingInit

SpecArray == InitArray /\ [][NextArray]_vars

\* ------------------------------------------------------------------------
\* PrototypingModule: update() with a connected function, run by thread_loop
\* ------------------------------------------------------------------------

\* Sensor frames, named by the reading they come from (the frame after
\* crop_frame, clip_frame, inversion and normalisation).
FrameIds == {1, 2}

\* What is connected: nothing (function_to_run is None) or a plotting
\* function of the notebook.
FunctionsToRun == {"None", "function"}

\* What a call self.function_to_run() can do: calling None raises TypeError,
\* a function returns or raises an error of its own.
Outcomes(f) == IF f = "None" THEN {"TypeError"} ELSE {"returns", "Exception"}

Caught_Nothing(exc) == FALSE

\* except Exception: the classes the handler matches.
Caught(exc) == exc \in {"Exception", "TypeError"}

\* The axes after plot.ax.cla(), after the connected function and after
\* plot.render_frame(frame).
Cleared == [by |-> "nothing", frame |-> 0]
ByFunction == [by |-> "function", frame |-> 0]
Rendered(f) == [by |-> "render_frame", frame |-> f]

\* Statements of PrototypingModule.update.
PUpdatePcs == {"get_frame", "connection", "function", "aruco", "trigger"}

\* frame = self.sensor.get_filtered_frame() and the crop / clip / norm part;
\* the update in which the function raised is over.
PGetFrame(w) ==
    /\ wpc[w] = "get_frame"
    /\ \E f \in FrameIds : uframe' = f
    /\ failed' = IF failed = "now" THEN "before" ELSE failed
    /\ wpc' = [wpc EXCEPT ![w] = "connection"]
    /\ UNCHANGED <<function_to_run, active_connection, drawn,
                   thread_status, lock, thread, cpc, jt, incb, param,
                   fvars, jvars, avars, gvars, pvars>>

\* if self.active_connection: self.plot.ax.cla(); try: ...
\* else: self.plot.render_frame(frame)
PConnection(w) ==
    /\ wpc[w] = "connection"
    /\ IF active_connection
         THEN /\ drawn' = Cleared
              /\ wpc' = [wpc EXCEPT ![w] = "function"]
         ELSE /\ drawn' = Rendered(uframe)
              /\ wpc' = [wpc EXCEPT ![w] = "aruco"]
    /\ UNCHANGED <<function_to_run, active_connection, uframe, failed,
                   thread_status, lock, thread, cpc, jt, incb, param,
                   fvars, jvars, avars, gvars, pvars>>

\* try: self.function_to_run()
\* except Exception: traceback.print_exc(); self.active_connection = False
\* An exception the handler does not match leaves update() and thread_loop.
PFunction(w) ==
    /\ wpc[w] = "function"
    /\ \E out \in Outcomes(function_to_run) :
          IF out = "returns"
            THEN /\ drawn' = ByFunction
                 /\ wpc' = [wpc EXCEPT ![w] = "aruco"]
                 /\ UNCHANGED <<active_connection, failed>>
          ELSE IF Caught(out)
            THEN /\ active_connection' = FALSE
                 /\ failed' = "now"
                 /\ wpc' = [wpc EXCEPT ![w] = "aruco"]
                 /\ UNCHANGED drawn
            ELSE /\ wpc' = [wpc EXCEPT ![w] = "raised"]
                 /\ UNCHANGED <<active_connection, failed, drawn>>
    /\ UNCHANGED <<function_to_run, uframe,
                   thread_status, lock, thread, cpc, jt, incb, param,
                   fvars, jvars, avars, gvars, pvars>>

\* if isinstance(self.Aruco, ArucoMarkers): ...   (Aruco=None, the default)
PAruco(w) ==
    /\ wpc[w] = "aruco"
    /\ wpc' = [wpc EXCEPT ![w] = "trigger"]
    /\ UNCHANGED <<thread_status, lock, thread, cpc, jt, incb, param,
                   fvars, jvars, avars, gvars, pvars, uvars>>

\* thread_loop around PrototypingModule.update
PWorker(w) ==
    \/ LoopTest(w)
    \/ LockAcquire(w)
    \/ PGetFrame(w)
    \/ PConnection(w)
    \/ PFunction(w)
    \/ PAruco(w)
    \/ UpdateTrigger(w)
    \/ LockRelease(w)

\* run() called from the notebook, after any earlier stop() has returned
\* from its join(): a new Thread runs thread_loop.
PRun ==
    /\ thread_status # "running"
    /\ IF thread = NoThread THEN TRUE ELSE Terminated(thread)
    /\ thread_status' = "running"
    /\ LET w == MinOf({v \in ThreadIds : wpc[v] = "none" /\ lock # v}) IN
         /\ thread' = w
         /\ wpc' = [Collect(wpc, w, lock, jt) EXCEPT ![w] = "test"]
    /\ UNCHANGED <<lock, cpc, jt, incb, param,
                   fvars, jvars, avars, gvars, pvars, uvars>>

\* stop() called from the notebook: self.thread_status = 'stopped', then the
\* caller waits in self.thread.join().
PStop ==
    /\ thread_status # "stopped"
    /\ thread_status' = "stopped"
    /\ UNCHANGED <<lock, thread, wpc, cpc, jt, incb, param,
                   fvars, jvars, avars, gvars, pvars, uvars>>

\* module.function_to_run = ..., written in the notebook
PSetFunction ==
    /\ \E f \in FunctionsToRun : function_to_run' = f
    /\ UNCHANGED <<active_connection, uframe, drawn, failed,
                   tvars, fvars, jvars, avars, gvars, pvars>>

\* module.active_connection = True, written in the notebook: no statement of
\* the module sets the flag.
PSetConnection ==
    /\ active_connection' = TRUE
    /\ failed' = "no"
    /\ UNCHANGED <<function_to_run, uframe, drawn,
                   tvars, fvars, jvars, avars, gvars, pvars>>

NextPrototyping ==
    \/ \E w \in ThreadIds : PWorker(w)
    \/ PRun
    \/ PStop
    \/ PSetFunction
    \/ PSetConnection

SpecPrototyping == Init /\ [][NextPrototyping]_vars

\* The scheduler runs the worker thread whenever it can take a step.
LiveSpecPrototyping ==
    /\ SpecPrototyping
    /\ \A w \in ThreadIds : WF_vars(PWorker(w))

TypeOK ==
    /\ thread_status \in {"stopped", "running", "paused"}
    /\ lock \in {0} \cup ThreadIds
    /\ thread \in {NoThread} \cup ThreadIds
    /\ \A c \in Callers : jt[c] \in {NoThread} \cup ThreadIds
    /\ param \in ParamValues

\* ------------------------------------------------------------------------
\* Claims about the run-loop
\* ------------------------------------------------------------------------

AliveWorkers == {w \in ThreadIds : Alive(w)}

\* C1: whatever run(), stop(), pause() and resume() calls the callers make and
\* however they interleave, at most one worker thread executing thread_loop
\* is alive.
C1_AtMostOneWorker == Cardinality(AliveWorkers) <= 1

\* Worker w is between its lock.acquire() and its lock.release(): it executes
\* update() or has just returned from it.
HoldsForUpdate(w) == wpc[w] \in UpdatePcs \cup {"release"}

\* C2: the lock is held exactly while an update() call made by thread_loop is
\* executing, whether update() returns or raises: it is held by the worker
\* that is inside the call and free when no worker is.
C2_LockHeldExactlyDuringUpdate ==
    /\ \A w \in ThreadIds : HoldsForUpdate(w) => lock = w
    /\ lock # 0 => HoldsForUpdate(lock)

\* A worker that passed the loop test: it executes update() or is about to.
CommittedPcs == {"acquire"} \cup UpdatePcs

\* pause() of caller c, having set 'paused' and joined, returns in this step.
PauseReturns(c) == cpc[c] = "pause_wait" /\ cpc'[c] # "pause_wait"

\* stop() of caller c, having set 'stopped' and joined, returns in this step.
StopReturns(c) == cpc[c] = "stop_wait" /\ cpc'[c] # "stop_wait"

\* C3: pause() on a running module returns only after the worker has
\* terminated, and no update() executes from then until the next resume()
\* or run(): when it returns and the module is still paused, no worker
\* thread executes update() or has passed the loop test towards it.
C3_PauseJoinsWorker ==
    [][\A c \in Callers :
          (PauseReturns(c) /\ thread_status' = "paused")
             => \A w \in ThreadIds : wpc'[w] \notin CommittedPcs]_vars

\* C6: there are no read-write collisions: module state that update() reads
\* is written by a callback only while no update() call is executing.
C6_NoWriteDuringUpdate ==
    [][param' # param => \A w \in ThreadIds : ~InUpdate(w)]_vars

\* C7: when stop() returns on a running or paused module and no run() has
\* made the module 'running' again, the worker has terminated, so that no
\* update() executes; and a resume() in the stopped state starts no thread
\* and leaves the status 'stopped'.
C7_StopTerminatesWorker ==
    [][\A c \in Callers :
          /\ (StopReturns(c) /\ thread_status' = "stopped")
                => \A w \in ThreadIds : wpc'[w] \notin CommittedPcs
          /\ (thread_status = "stopped" /\ cpc[c] = "resume_test"
                                         /\ cpc'[c] # "resume_test")
                => /\ cpc'[c] = "idle"
                   /\ thread_status' = "stopped"
                   /\ wpc' = wpc
                   /\ thread' = thread]_vars

\* Some worker is at the last statement of update(), projector.trigger(),
\* having pulled a frame and rendered it in this call.
Triggering == \E w \in ThreadIds : wpc[w] = "trigger"

\* C4: after run(), as long as thread_status stays 'running' and every
\* update() call ends, by returning or by raising, a worker executes update()
\* infinitely often, each time pulling a frame, rendering it and reaching
\* projector.trigger().
C4_RunLoopContinuous ==
    <>[](thread_status = "running") => []<>Triggering

\* The run-loop at work: the module is running and the worker that holds the
\* lock has pulled and rendered a frame and is triggering the projector.
C4_Witness ==
    /\ thread_status = "running"
    /\ lock # 0
    /\ wpc[lock] = "trigger"

\* ------------------------------------------------------------------------
\* Claims about the frame geometry
\* ------------------------------------------------------------------------

\* The sensor frame of the update under way, cropped by the calibration.
Cropped == crop_frame(raw, calib)

\* Positions of update() at which the named statement has been executed.
MaskTaken == {"clip", "scale", "lookup", "apply_mask", "render"}
Clipped == {"scale", "lookup", "apply_mask", "render"}
Scaled == {"lookup", "apply_mask", "render"}

C9_DepthMaskTrueWithinRange ==
    (bpc = "clip" /\ frame.rows > 0 /\ frame.cols > 0) =>
        /\ dmask.rows = frame.rows
        /\ dmask.cols = frame.cols
        /\ \A p \in Positions(frame.rows, frame.cols) :
              dmask.at[p] <=> (calib.s_min <= frame.at[p] /\ frame.at[p] <= calib.s_max)

\* C10: for margins with s_top + s_bottom < s_height and s_left + s_right <
\* s_width, crop_frame returns the sub-frame of shape (s_frame_height,
\* s_frame_width) whose element (r, c) is the input's (r + s_bottom, c + s_left).
C10_CropFrameIsSubFrame ==
    bpc = "depth_mask" =>
        /\ frame.rows = s_frame_height(calib)
        /\ frame.cols = s_frame_width(calib)
        /\ \A p \in Positions(frame.rows, frame.cols) :
              frame.at[p] = raw.at[<<p[1] + calib.s_bottom, p[2] + calib.s_left>>]

\* ------------------------------------------------------------------------
\* Claims about the calibration file
\* ------------------------------------------------------------------------

\* The calibration parameters: projector frame, sensor margins, sensor
\* range, box size, sensor name and resolution.
CalibParams ==
    {"p_frame_top", "p_frame_left", "p_frame_width", "p_frame_height",
     "s_top", "s_right", "s_bottom", "s_left", "s_min", "s_max",
     "box_width", "box_height", "s_name", "s_width", "s_height"}

\* C8: c.save_json(f) followed by CalibrationData(file=f), with the version
\* unchanged, yields an object that has every calibration parameter and in
\* which each equals c's.
C8_CalibrationRoundTrip ==
    jpc = "loaded" =>
        /\ CalibParams \subseteq DOMAIN loaded
        /\ \A k \in CalibParams : PyEq(loaded[k], cdata[k])

\* A round trip of a calibration that differs from the defaults in values of
\* every kind: a negative int, a zero margin, a float, a string and lists.
C8_Witness ==
    /\ jpc = "loaded"
    /\ cdata.p_frame_left = PyInt(-5)
    /\ cdata.s_top = PyInt(0)
    /\ cdata.box_width = PyFloat(1200)
    /\ cdata.s_name = PyStr("kinect_v1")
    /\ cdata.camera_mtx # PyNone
    /\ loaded.box_width = PyFloat(1200)

\* ------------------------------------------------------------------------
\* Claims about the tracked markers
\* ------------------------------------------------------------------------

\* C11: across update_marker_dict() calls a tracked marker is removed exactly
\* when it has not been detected for more than threshold consecutive frames;
\* after threshold consecutive frames without detection it is still listed.
C11_RemovedAfterMoreThanThreshold ==
    [][(apc = "update" /\ apc' = "search") =>
          \A i \in DOMAIN aruco_markers :
              (i \notin DOMAIN aruco_markers') <=> (missed'[i] > threshold)]_vars

\* C12: after every update_marker_dict() call each marker of markers_in_frame
\* is in aruco_markers with the frame's position and a counter of 0, whether
\* it was newly found or already tracked.
C12_DetectedMarkersAreCurrent ==
    apc = "search" =>
        \A j \in DOMAIN markers_in_frame :
            /\ j \in DOMAIN aruco_markers
            /\ aruco_markers[j].pos = markers_in_frame[j].pos
            /\ aruco_markers[j].counter = 0

\* An update_marker_dict() call on a frame with a newly found marker and a
\* marker tracked before, while another call had left a marker unseen.
C12_Witness ==
    /\ apc = "search"
    /\ \E j \in DOMAIN markers_in_frame : j \in tracked_before
    /\ \E j \in DOMAIN markers_in_frame : j \notin tracked_before

\* ------------------------------------------------------------------------
\* Claims about the depth grid
\* ------------------------------------------------------------------------

\* C13: after update_grid(frame) on a cropped and clipped frame, depth_grid
\* holds one row per pixel whose x, y are the row of empty_depth_grid and
\* whose z is the pixel's depth scaled into the model's vertical extent, and
\* empty_depth_grid is unchanged.
C13_DepthGridHoldsScaledFrame ==
    gpc = "returned" =>
        /\ depth_grid.n = frame.rows * frame.cols
        /\ \A k \in 1 .. (frame.rows * frame.cols) :
              /\ depth_grid.at[k][1] = empty_depth_grid.at[k][1]
              /\ depth_grid.at[k][2] = empty_depth_grid.at[k][2]
              /\ depth_grid.at[k][3] = flattened_depth(frame, extent, calib)[k]
        /\ empty_depth_grid = create_empty_depth_grid(extent, calib)

\* ------------------------------------------------------------------------
\* Claims about the plot
\* ------------------------------------------------------------------------

\* The levels a Plot would draw for the sensor range of the calibration.
CalibratedLevels(self) == arange(calib.s_min, calib.s_max, self.contours_step)

\* C14: once a slider callback has changed s_min or s_max, the contour
\* levels of a Plot that was constructed without vmin and vmax run from the
\* current s_min to the current s_max in steps of contours_step.
C14_ContourLevelsFollowCalibration ==
    ppc = "calibrated" =>
        /\ contours_levels(plot) = CalibratedLevels(plot)
        /\ contours_levels(calib_plot) = CalibratedLevels(calib_plot)

\* ------------------------------------------------------------------------
\* Claims about clipping and the crop workaround
\* ------------------------------------------------------------------------

\* The step is a call of clip_frame.
ClipStep == bpc' \in ClipFramePcs /\ bpc # "clip_frame_again"

\* The value the claim gives a pixel x: s_min below the range, s_max above
\* it, x inside.
ClippedAsClaimed(x, cal) ==
    IF x < cal.s_min THEN cal.s_min
    ELSE IF x > cal.s_max THEN cal.s_max
    ELSE x

\* Every pixel of the clipped frame frame' comes from frame as claimed and
\* lies in [s_min, s_max].
ClipsIntoRange ==
    /\ frame'.rows = frame.rows /\ frame'.cols = frame.cols
    /\ \A p \in Positions(frame.rows, frame.cols) :
          /\ frame'.at[p] = ClippedAsClaimed(frame.at[p], calib)
          /\ frame'.at[p] >= calib.s_min
          /\ frame'.at[p] <= calib.s_max

\* clip_frame of a clipped frame returns the same frame, and depth_mask of a
\* clipped frame masks nothing.
ClipIsStable ==
    /\ [][(bpc = "clip_frame" /\ bpc' = "clip_frame_again") => frame' = frame]_vars
    /\ [](bpc = "depth_mask_of_clipped" => dmask = nomask)

\* C15 as stated: under every calibration clip_frame maps each pixel into
\* [s_min, s_max] (below s_min to s_min, above s_max to s_max, inside
\* unchanged), is idempotent, and depth_mask of a clipped frame marks no pixel.
C15_ClipFrameIntoRange ==
    /\ [][ClipStep => ClipsIntoRange]_vars
    /\ ClipIsStable

\* C15, amended: the mapping into [s_min, s_max] holds whenever
\* s_min <= s_max; with s_min > s_max every pixel becomes s_max.  Idempotence
\* and the empty mask of a clipped frame hold under every calibration.
C15_ClipFrameIntoOrderedRange ==
    /\ [][ClipStep =>
            IF calib.s_min <= calib.s_max
              THEN ClipsIntoRange
              ELSE \A p \in Positions(frame.rows, frame.cols) :
                      frame'.at[p] = calib.s_max]_vars
    /\ ClipIsStable

\* A frame with pixels below, inside and above an ordered range has been
\* clipped, clipped again and masked.
C15_Witness ==
    /\ bpc = "depth_mask_of_clipped"
    /\ calib.s_min < calib.s_max
    /\ \E p, q, r \in Positions(raw.rows, raw.cols) :
          /\ raw.at[p] < calib.s_min
          /\ raw.at[q] > calib.s_max
          /\ raw.at[r] > calib.s_min /\ raw.at[r] < calib.s_max
    /\ frame.rows = SHeight /\ frame.cols = SWidth

\* The margins leave a frame: opposite margins do not overlap.
MarginsFit(cal) ==
    /\ cal.s_top + cal.s_bottom <= SHeight
    /\ cal.s_left + cal.s_right <= SWidth

\* The result of crop_frame_workaround has the shape of the calibration and
\* is what crop_frame returns when neither s_top nor s_right is 0.
CroppedToFrameSize ==
    /\ frame.rows = s_frame_height(calib)
    /\ frame.cols = s_frame_width(calib)
    /\ (calib.s_top > 0 /\ calib.s_right > 0) => frame = crop_frame(raw, calib)

\* C16 as stated: for every sensor frame and all margins >= 0,
\* crop_frame_workaround returns a frame of shape
\* (s_frame_height, s_frame_width), equal to the result of crop_frame when
\* s_top > 0 and s_right > 0.
C16_WorkaroundCropsToFrameSize ==
    bpc = "crop_frame_workaround" => CroppedToFrameSize

\* C16, amended: the same for all margins >= 0 with
\* s_top + s_bottom <= s_height and s_left + s_right <= s_width; when opposite
\* margins overlap, the result is empty and still what crop_frame returns
\* for s_top > 0 and s_right > 0.
C16_WorkaroundCropsFittingMargins ==
    bpc = "crop_frame_workaround" =>
        IF MarginsFit(calib)
          THEN CroppedToFrameSize
          ELSE /\ frame.rows = 0 \/ frame.cols = 0
               /\ (calib.s_top > 0 /\ calib.s_right > 0) =>
                      frame = crop_frame(raw, calib)

\* crop_frame_workaround has cropped a frame with s_top = 0 and s_right = 0
\* and positive opposite margins.
C16_Witness ==
    /\ bpc = "crop_frame_workaround"
    /\ calib.s_top = 0 /\ calib.s_right = 0
    /\ calib.s_bottom > 0 /\ calib.s_left > 0
    /\ frame.rows = SHeight - calib.s_bottom
    /\ frame.cols = SWidth - calib.s_left

\* ------------------------------------------------------------------------
\* Claims about the connected function
\* ------------------------------------------------------------------------

\* Worker w has passed the if / else of update() and not yet left update().
PastConnection(w) == wpc[w] \in {"aruco", "trigger", "release"}

\* Safety part: no exception has left update(); while the function's failure
\* stands the flag is False; the worker of a running module is alive; and an
\* update after the one that failed has rendered its sensor frame.
HandledInUpdate ==
    /\ \A w \in ThreadIds : wpc[w] # "raised"
    /\ failed # "no" => ~active_connection
    /\ thread_status = "running" =>
          /\ thread # NoThread
          /\ wpc[thread] \in {"test", "acquire", "release"} \cup PUpdatePcs
    /\ \A w \in ThreadIds :
          (failed = "before" /\ PastConnection(w)) => drawn = Rendered(uframe)

\* C17: when function_to_run raises, the exception stays inside update():
\* active_connection becomes False, that update goes on to
\* projector.trigger(), the worker thread keeps running, and every later
\* update (until the notebook connects again) renders the sensor frame with
\* plot.render_frame instead of calling the function.
C17_FunctionErrorHandledInUpdate ==
    /\ []HandledInUpdate
    /\ [][\A w \in ThreadIds :
             (wpc[w] = "function" /\ failed' = "now") =>
                 (~active_connection' /\ wpc'[w] = "aruco")]_vars
    /\ \A w \in ThreadIds :
          (wpc[w] = "aruco" /\ failed = "now") ~> (wpc[w] = "release")

\* The function has raised in an earlier update, and the current update has
\* rendered the sensor frame and called projector.trigger().
C17_Witness ==
    /\ failed = "before"
    /\ thread_status = "running"
    /\ wpc[thread] = "release"
    /\ drawn = Rendered(uframe)
    /\ function_to_run = "function"

====
